---- MODULE Spec2Model ----
(***************************************************************************)
(* calchat: the session store (SessionManager) of app/api/chat.py and the  *)
(* streaming turn (generate_openai_stream) built on it; the endpoints of   *)
(* app/main.py that drive the turn; the Chainlit turn of                    *)
(* app/chainlit_app.py.                                                     *)
(*                                                                         *)
(* Specifications: SpecStore (direct calls of the store), Spec (streaming  *)
(* turns), SpecDisconnect (streaming turns whose client goes away),        *)
(* SpecWs (one WebSocket connection), SpecChainlit (Chainlit turns in      *)
(* worker threads), SpecChunk (the chunking loop alone), SpecEntry (the    *)
(* three entry paths of app/main.py together), SpecLive (streaming turns   *)
(* under the event loop's scheduling), SpecCal (the scheduling tools of    *)
(* app/tools/calendar_tools.py over CalApiService and make_api_request),   *)
(* SpecSingleton (threads asking for the CalApiService instance).          *)
(*                                                                         *)
(* Text is a sequence of one-character strings.  A history object is a     *)
(* reference into `heap`; a turn keeps the reference it was given even     *)
(* when the store drops the record.  `sessions` is the dict of the store   *)
(* in insertion order (Python dicts iterate in insertion order).           *)
(* The clock is in seconds; an action reads it once.  It advances in steps  *)
(* of half the expiry duration, so that a record's age can be less than,   *)
(* equal to and more than the expiry duration.                             *)
(***************************************************************************)
EXTENDS Integers, Sequences, FiniteSets, TLC

\* ------------------------------------------------------------- bounds
MaxSessionsArg == 2      \* max_sessions is drawn from 1..MaxSessionsArg
MaxExpiryArg == 2        \* SpecStore: expiry_hours is drawn from 1..MaxExpiryArg
MaxTicks == 3            \* the clock advances at most this many times
MaxTurns == 2            \* turns (generator instances) in one behaviour
MaxHistories == 3        \* ChatMessageHistory objects created in one behaviour
MaxSegments == 3         \* SpecChunk: segments in a text given to the chunking loop
MaxWorkers == 3          \* SpecChainlit: Chainlit turns (worker threads) in one behaviour
MaxReports == 5          \* SpecCal: error lines about the missing key in one behaviour
MaxThreads == 2          \* SpecSingleton: threads that ask for the CalApiService instance

\* ---------------------------------------------------------- constants
SESSION_EXPIRY_HOURS == 24
SecondsPerHour == 3600
ChunkLimit == 80

SessionIds == {"a", "b", "c"}
TurnSessionIds == {"a", "b"}
Turns == 1..MaxTurns
Terminators == {".", "!", "?", "\n"}

Digit(t) == IF t = 1 THEN "1" ELSE IF t = 2 THEN "2" ELSE IF t = 3 THEN "3" ELSE "4"
Rep(c, n) == [i \in 1..n |-> c]

ErrorPrefix ==
    <<"E", "r", "r", "o", "r", " ", "p", "r", "o", "c", "e", "s", "s", "i", "n", "g",
      " ", "r", "e", "q", "u", "e", "s", "t", ":", " ">>

\* The text the client sends in turn t, and what the agent may answer (nothing,
\* or two sentences) or raise (a text with a full stop that makes the error
\* message longer than ChunkLimit).
UserText(t) == <<"m", Digit(t)>>
Replies(t) == { <<>>, <<Digit(t), ".", "y">> }
Errors == { <<"5", "0", "0", ".">> \o Rep("x", ChunkLimit - Len(ErrorPrefix)) }

HumanMessage(text) == [role |-> "human", content |-> text]
AIMessage(text) == [role |-> "ai", content |-> text]

\* The messages a direct caller of get_history adds to the history it got.
CallerMessages == {HumanMessage(<<"m", "0">>)}

Range(s) == {s[i] : i \in 1..Len(s)}
IsPrefix(s, u) == Len(s) <= Len(u) /\ SubSeq(u, 1, Len(s)) = s
Last(s) == s[Len(s)]

VARIABLES
    now,              \* time.time()
    expiry_hours,     \* SessionManager.expiry_hours
    max_sessions,     \* SessionManager.max_sessions
    sessions,         \* SessionManager.sessions, in insertion order
    heap,             \* heap[h]: the messages of history object h
    call,             \* the last direct get_history call: its arguments, the store before it, its result
    pc,               \* pc[t]: where turn t is
    session_id,       \* session_id[t]
    format_as_sse,    \* format_as_sse[t]
    message_history,  \* the history object turn t got at line 205
    wrapped_history,  \* the history object RunnableWithMessageHistory got for turn t
    chat_history,     \* the messages handed to the agent as chat_history in turn t
    invoked,          \* how many times the agent was invoked for turn t
    ai_message,       \* result["output"] of turn t
    sentences,        \* the chunks of turn t still to be yielded
    out,              \* what turn t has yielded so far
    overlap,          \* whether a turn ever started while another was running
    chunker,          \* SpecChunk: a text, and what the chunking loop made of it
    worker,           \* SpecChainlit: worker[w], a Chainlit turn and its thread
    ws,               \* SpecWs: one WebSocket connection
    cal,              \* SpecCal: the scheduling side, and what its last operation did
    singleton         \* SpecSingleton: the CalApiService class and the threads that ask for it

TickSeconds == (expiry_hours * SecondsPerHour) \div 2

vars == <<now, expiry_hours, max_sessions, sessions, heap, call, pc, session_id,
          format_as_sse, message_history, wrapped_history, chat_history, invoked,
          ai_message, sentences, out, overlap, chunker, worker, ws, cal, singleton>>

calVars == <<cal, singleton>>
auxVars == <<chunker, worker, ws, calVars>>
storeVars == <<expiry_hours, max_sessions>>
turnVars == <<pc, session_id, format_as_sse, message_history, wrapped_history,
              chat_history, invoked, ai_message, sentences, out, overlap>>

\* ------------------------------------------------------- SessionManager
Ids(S) == {S[i].id : i \in 1..Len(S)}
IndexOf(S, sid) == CHOOSE i \in 1..Len(S) : S[i].id = sid
Record(S, sid) == S[IndexOf(S, sid)]
RemoveAt(S, i) == [j \in 1..(Len(S) - 1) |-> IF j < i THEN S[j] ELSE S[j + 1]]

Expired_ge(r, current_time) ==
    (current_time - r.last_access) >= expiry_hours * SecondsPerHour

Expired_minutes(r, current_time) ==
    (current_time - r.last_access) > expiry_hours * 60

Expired(r, current_time) ==
    (current_time - r.last_access) > expiry_hours * SecondsPerHour

clean_expired_sessions(S, current_time) ==
    SelectSeq(S, LAMBDA r : ~Expired(r, current_time))

\* min() over the keys returns the first key, in iteration order, whose
\* last_access is the smallest.
OldestIndex(S) ==
    CHOOSE i \in 1..Len(S) :
        \A j \in 1..Len(S) :
            /\ S[i].last_access <= S[j].last_access
            /\ (j < i => S[j].last_access > S[i].last_access)

remove_oldest_fifo(S) ==
    IF S = <<>> THEN S ELSE Tail(S)

remove_oldest_session(S) ==
    IF S = <<>> THEN S ELSE RemoveAt(S, OldestIndex(S))

AtCapacity_gt(S) == Len(S) > max_sessions

AtCapacity(S) == Len(S) >= max_sessions

get_history_capacity_first(S, H, sid, t) ==
    LET swept == clean_expired_sessions(S, t)
        room == IF AtCapacity(swept) THEN remove_oldest_session(swept) ELSE swept
    IN
    IF sid \in Ids(room)
    THEN [sessions |-> [room EXCEPT ![IndexOf(room, sid)].last_access = t],
          heap |-> H,
          history |-> Record(room, sid).history]
    ELSE [sessions |-> Append(room, [id |-> sid, history |-> Len(H) + 1, last_access |-> t]),
          heap |-> Append(H, <<>>),
          history |-> Len(H) + 1]

\* The id looked up before the sweep: a stored session is refreshed and
\* returned however old it is.
get_history_lookup_first(S, H, sid, t) ==
    IF sid \in Ids(S)
    THEN LET kept == SelectSeq(S, LAMBDA r : r.id = sid \/ ~Expired(r, t)) IN
         [sessions |-> [kept EXCEPT ![IndexOf(kept, sid)].last_access = t],
          heap |-> H,
          history |-> Record(kept, sid).history]
    ELSE LET swept == clean_expired_sessions(S, t)
             room == IF AtCapacity(swept) THEN remove_oldest_session(swept) ELSE swept
             history == Len(H) + 1
         IN [sessions |-> Append(room, [id |-> sid, history |-> history, last_access |-> t]),
             heap |-> Append(H, <<>>),
             history |-> history]

\* get_history(session_id) at time t on store S and heap H: the store and heap
\* it leaves, and the history object it returns.
get_history(S, H, sid, t) ==
    LET swept == clean_expired_sessions(S, t) IN
    IF sid \in Ids(swept)
    THEN [sessions |-> [swept EXCEPT ![IndexOf(swept, sid)].last_access = t],
          heap |-> H,
          history |-> Record(swept, sid).history]
    ELSE LET room == IF AtCapacity(swept) THEN remove_oldest_session(swept) ELSE swept
             history == Len(H) + 1
         IN [sessions |-> Append(room, [id |-> sid, history |-> history, last_access |-> t]),
             heap |-> Append(H, <<>>),
             history |-> history]

\* Whether get_history(sid) would create a history object now.
Creates(sid) == sid \notin Ids(clean_expired_sessions(sessions, now))

CallRecord(sid, r) ==
    [sid |-> sid, time |-> now, before |-> sessions, history |-> r.history,
     messages |-> r.heap[r.history], flip |-> ~call.flip]

NoCall ==
    [sid |-> "", time |-> 0, before |-> <<>>, history |-> 0, messages |-> <<>>,
     flip |-> FALSE]

\* ------------------------------------------------------------- chunker
\* Line 244: whether the sentence is appended once text[j] has been added to
\* it, the sentence having held current_sentence before text[i].
Closes_gt(text, i, current_sentence, j) ==
    \/ text[j] \in Terminators
    \/ Len(current_sentence) + (j - i + 1) > ChunkLimit

Closes(text, i, current_sentence, j) ==
    \/ text[j] \in Terminators
    \/ Len(current_sentence) + (j - i + 1) >= ChunkLimit

\* Lines 249-250: what the loop leaves in current_sentence is appended unless
\* it is empty.
Remainder_dropped(current_sentence, acc) == acc

Remainder_always(current_sentence, acc) == Append(acc, current_sentence)

Remainder(current_sentence, acc) ==
    IF current_sentence # <<>> THEN Append(acc, current_sentence) ELSE acc

\* The loop of lines 241-246 from text[i] on, with current_sentence and the
\* sentences appended so far.  The characters up to the first one that closes
\* the sentence are taken in one step, so that the recursion is as deep as the
\* number of sentences and not as the number of characters.
RECURSIVE Chunk(_, _, _, _)
Chunk(text, i, current_sentence, acc) ==
    IF i > Len(text)
    THEN Remainder(current_sentence, acc)
    ELSE LET closing == {j \in i..Len(text) : Closes(text, i, current_sentence, j)} IN
         IF closing = {}
         THEN Chunk(text, Len(text) + 1, current_sentence \o SubSeq(text, i, Len(text)), acc)
         ELSE LET j == CHOOSE k \in closing : \A l \in closing : k <= l IN
              Chunk(text, j + 1, <<>>, Append(acc, current_sentence \o SubSeq(text, i, j)))

Sentences(text) == Chunk(text, 1, <<>>, <<>>)

\* What is yielded for one piece of text: an SSE event carrying
\* {"content": text}, or the raw text.
Frame(sse, text) ==
    IF sse THEN [framing |-> "sse", content |-> text]
    ELSE [framing |-> "raw", content |-> text]

\* The texts the chunking loop is tried on: up to MaxSegments segments, each a
\* run of letters of length 1, ChunkLimit - 1 or ChunkLimit, or a run of length
\* 0 or ChunkLimit - 1 closed by a terminator.
Segments ==
    {Rep("a", n) : n \in {1, ChunkLimit - 1, ChunkLimit}}
    \cup {Append(Rep("a", n), c) : n \in {0, ChunkLimit - 1}, c \in Terminators}

RECURSIVE Texts(_)
Texts(k) ==
    IF k = 0 THEN {<<>>}
    ELSE LET shorter == Texts(k - 1) IN
         shorter \cup {s \o seg : s \in shorter, seg \in Segments}

ChunkInputs == Texts(MaxSegments)

NotChunked(T) == [ai_message |-> T, sentences |-> <<>>, done |-> FALSE]

\* --------------------------------------------------- Chainlit, WebSocket
Workers == 1..MaxWorkers
\* A Chainlit turn (chainlit_app.py main) and the worker thread that runs
\* agent.invoke for it: where it is, its session id, the locals of the
\* get_history call it makes (expired_sessions, oldest_session), the history
\* it got, whether that call raised, and the messages now shown to the user.
IdleWorker ==
    [pc |-> "idle", session_id |-> "", expired_sessions |-> <<>>, oldest_session |-> "",
     history |-> 0, raised |-> FALSE, sent |-> <<>>]

ChainlitText(w) == <<"c", Digit(w)>>
ProcessingMessage == [type |-> "system", content |-> <<"T">>]
FinalMessage(output) == [type |-> "assistant", content |-> output]
ErrorMessage == [type |-> "error", content |-> <<"E">>]
\* The connection after websocket.accept() (main.py line 105): no payload
\* received yet.  `requests` counts the payloads that parsed, `session_id` is
\* that of the last one, `sent_at_receive` is how many texts had been sent on
\* the socket when the last payload arrived, `failure` tells that the handler
\* ended in its `except Exception` branch.
Accepted ==
    [state |-> "open", requests |-> 0, session_id |-> "", sent_at_receive |-> 0,
     failure |-> FALSE]

\* What a client may send in a text frame: a JSON object with or without a
\* session_id, a JSON value that is not an object, or text that is not JSON.
WsPayloads ==
    { [kind |-> "object", session_id |-> "a"],
      [kind |-> "object", session_id |-> "absent"],
      [kind |-> "array", session_id |-> "absent"],
      [kind |-> "not_json", session_id |-> "absent"] }

\* json.loads(data) and the two data_json.get calls (main.py lines 111-113)
\* succeed only on a JSON object.
Parses(payload) == payload.kind = "object"

\* An id made up for the request that carries none.
PayloadSessionId_generated(payload) ==
    IF payload.session_id = "absent" THEN "generated" ELSE payload.session_id

\* data_json.get("session_id", "default")
PayloadSessionId(payload) ==
    IF payload.session_id = "absent" THEN "default" ELSE payload.session_id

\* ------------------------------------------------- scheduling API (Cal.com)
None == "None"

\* What the server may answer to a request that was sent: nothing (a
\* connection error: RequestException without a response), or a response
\* with a success or an error status whose body is JSON or is not.  JSON
\* bodies are told apart by what the callers look at: null, an object, an
\* object whose data has a recurringEventId.
Bodies == {"not_json", "null", "object", "recurring"}
NoResponse == [status |-> "none", body |-> "not_json"]
Responses ==
    {[status |-> s, body |-> b] : s \in {"ok", "error"}, b \in Bodies} \cup {NoResponse}

\* response.json()
Json(body) == IF body = "null" THEN None ELSE body

\* The method strings a caller may pass, and method.upper().
Methods == {"GET", "post", "DELETE"}
Upper(method) == IF method = "post" THEN "POST" ELSE method

\* What a call of make_api_request comes to: the tuple it returns, or an
\* exception it lets out; `sent` tells whether requests.get / requests.post
\* was called.
Returned(data, error, sent) == [data |-> data, error |-> error, raised |-> FALSE, sent |-> sent]
LetOut == [data |-> None, error |-> None, raised |-> TRUE, sent |-> TRUE]

\* api_utils.py lines 65-75, the handler of RequestException for an
\* exception that carries a response (raise_for_status).  Line 70 parses the
\* body; when that raises, line 71 catches it `as e`, which rebinds e to the
\* decode error, so that `e.response.status_code` on line 72 raises
\* AttributeError inside the handler: line 77 guards only the try body, and
\* the exception leaves make_api_request.
HttpErrorDetails(response) ==
    IF response.body = "not_json" THEN LetOut
    ELSE Returned(None, "details", TRUE)

\* api_utils.py make_api_request, lines 48-80.
make_api_request(method, response) ==
    IF Upper(method) \notin {"GET", "POST"}
    THEN Returned(None, "unsupported", FALSE)
    ELSE CASE response.status = "none" -> Returned(None, "failed", TRUE)
           [] response.status = "error" -> HttpErrorDetails(response)
           [] response.status = "ok" ->
                IF response.body = "not_json" THEN Returned(None, "failed", TRUE)
                ELSE Returned(Json(response.body), None, TRUE)

\* What a tool or a CalApiService operation comes to.
Let_out == [kind |-> "raised", data |-> None]
ErrorDict == [kind |-> "error", data |-> None]
Payload(data) == [kind |-> "payload", data |-> data]
ConfirmationRequired == [kind |-> "confirmation_required", data |-> None]

\* A call's account: its result, the HTTP requests it issued, in order, and
\* how many times it logged the missing API key.
Account(result, requests, reports) ==
    [result |-> result, requests |-> requests, reports |-> reports]
Request(method, path) == [method |-> method, path |-> path]

\* `return response_data if not error_msg else {"error": error_msg}`, the
\* last line of the operations; an exception of make_api_request passes
\* through (no operation has a try around the call).
Requested(method, path, response) ==
    LET r == make_api_request(method, response) IN
    Account(IF r.raised THEN Let_out
            ELSE IF r.error # None THEN ErrorDict ELSE Payload(r.data),
            IF r.sent THEN <<Request(method, path)>> ELSE <<>>, 0)

\* _check_api_key (lines 107-113) logs and returns the error dict; then the
\* operation's own checks of its arguments; then the request.
Operation(api_key, valid, method, path, response) ==
    IF ~api_key THEN Account(ErrorDict, <<>>, 1)
    ELSE IF ~valid THEN Account(ErrorDict, <<>>, 0)
    ELSE Requested(method, path, response)

\* Argument values: a string is "" or not; an event type id is an int (zero
\* or not), a string, or None; an attendee is None, a dict with a field
\* missing, or a dict with name, email and timeZone.
Strings == {"", "s"}
EventTypeIds == {"None", "0", "7", "seven"}
IsInt(event_type_id) == event_type_id \in {"0", "7"}
Falsy(event_type_id) == event_type_id \in {"None", "0"}
Attendees == {"None", "no_email", "full"}
Flags == {"None", "True", "False"}

\* cal_api_service.py lines 115-169.
get_bookable_slots(api_key, start, end, response) ==
    Operation(api_key, start # "" /\ end # "", "GET", "slots", response)

\* Lines 171-253.
create_new_booking(api_key, event_type_id, start, attendee, response) ==
    Operation(api_key, ~Falsy(event_type_id) /\ start # "" /\ attendee = "full",
              "POST", "bookings", response)

\* Lines 305-354: no argument is required.
get_all_bookings(api_key, response) ==
    Operation(api_key, TRUE, "GET", "bookings", response)

\* Lines 356-385.
get_booking(api_key, booking_uid, response) ==
    Operation(api_key, booking_uid # "", "GET", "booking", response)

\* Lines 387-444.
reschedule_booking(api_key, booking_uid, start, response) ==
    Operation(api_key, booking_uid # "" /\ start # "", "POST", "reschedule", response)

\* Lines 446-495.
cancel_booking(api_key, booking_uid, response) ==
    Operation(api_key, booking_uid # "", "POST", "cancel", response)

\* get_all_event_types (lines 255-303) and get_my_profile (lines 504-568)
\* read the payload inside a try whose handler returns the error dict: the
\* result is a parsed value or the error dict, unless make_api_request let
\* an exception out.
Parsed(account) ==
    IF account.result.kind = "payload" /\ account.result.data = None
    THEN [account EXCEPT !.result = ErrorDict]
    ELSE account
get_all_event_types(api_key, response) ==
    Parsed(Operation(api_key, TRUE, "GET", "event-types", response))
get_my_profile(api_key, response) ==
    Parsed(Operation(api_key, TRUE, "GET", "me", response))

\* One call after another; the second is not made when the first let an
\* exception out.
Then(first, second) ==
    IF first.result.kind = "raised" THEN first
    ELSE Account(second.result, first.requests \o second.requests,
                 first.reports + second.reports)

\* CalApiService.__init__, lines 72-90: get_api_key logs when the variable is
\* not set (api_utils.py lines 20-23), then the two fetches.
Initialize(api_key, event_types, profile) ==
    Then(Then(Account(Payload("key"), <<>>, IF api_key THEN 0 ELSE 1),
              get_all_event_types(api_key, event_types)),
         get_my_profile(api_key, profile))

\* calendar_tools.py.  validate_and_format_datetime (date_utils.py) returns
\* an error for text that is not a date and a default for empty text:
\* `valid` tells that no date given was malformed.
\* get_available_slots, lines 20-56.
get_available_slots(api_key, valid, response) ==
    IF ~valid THEN Account(ErrorDict, <<>>, 0)
    ELSE get_bookable_slots(api_key, "s", "s", response)

\* book_new_appointment, lines 58-126.
book_new_appointment(api_key, event_type_id, valid, response) ==
    IF Falsy(event_type_id) \/ ~IsInt(event_type_id) THEN Account(ErrorDict, <<>>, 0)
    ELSE IF ~valid THEN Account(ErrorDict, <<>>, 0)
    ELSE create_new_booking(api_key, event_type_id, "s", "full", response)

\* get_user_bookings, lines 128-159.
get_user_bookings(api_key, attendee_email, attendee_name, response) ==
    IF attendee_email = "" /\ attendee_name = "" THEN Account(ErrorDict, <<>>, 0)
    ELSE get_all_bookings(api_key, response)

\* get_booking_by_uid, lines 161-175.
get_booking_by_uid(api_key, booking_uid, response) ==
    IF booking_uid = "" THEN Account(ErrorDict, <<>>, 0)
    ELSE get_booking(api_key, booking_uid, response)

\* reschedule_appointment, lines 177-211.
reschedule_appointment(api_key, booking_uid, valid, response) ==
    IF booking_uid = "" THEN Account(ErrorDict, <<>>, 0)
    ELSE IF ~valid THEN Account(ErrorDict, <<>>, 0)
    ELSE reschedule_booking(api_key, booking_uid, "s", response)

\* Lines 242-243: the booking is recurring and the caller did not say what
\* to do with the later ones.
NeedsConfirmation_never(data, cancel_subsequent_bookings) == FALSE
NeedsConfirmation(data, cancel_subsequent_bookings) ==
    data = "recurring" /\ cancel_subsequent_bookings = "None"

\* cancel_appointment, lines 213-259.  `"error" in booking_info` (line 237)
\* raises TypeError when the booking came back as null.
cancel_appointment(api_key, booking_uid, cancel_subsequent_bookings, fetched, response) ==
    IF booking_uid = "" THEN Account(ErrorDict, <<>>, 0)
    ELSE LET booking_info == get_booking(api_key, booking_uid, fetched) IN
         IF booking_info.result.kind # "payload" THEN booking_info
         ELSE IF booking_info.result.data = None
              THEN [booking_info EXCEPT !.result = Let_out]
         ELSE IF NeedsConfirmation(booking_info.result.data, cancel_subsequent_bookings)
              THEN [booking_info EXCEPT !.result = ConfirmationRequired]
         ELSE Then(booking_info, cancel_booking(api_key, booking_uid, response))

\* The scheduling side before calendar_tools is imported, and after a call:
\* `op` names the last call, `account` is what it came to, `invalid` tells
\* whether an argument of it failed a check, `fetched` is the answer to its
\* fetch and `flag` its cancel_subsequent_bookings (cancel_appointment),
\* `method` and `response` are those of a direct make_api_request call and
\* `returned` its outcome; `reports` counts the error lines logged so far
\* about the missing key.
NoAccount == Account(Payload(None), <<>>, 0)
NotImported ==
    [pc |-> "not_imported", api_key |-> FALSE, reports |-> 0, op |-> "",
     account |-> NoAccount, invalid |-> FALSE, fetched |-> NoResponse, flag |-> "None",
     method |-> "", response |-> NoResponse, returned |-> Returned(None, None, FALSE)]

\* The class CalApiService after its module is loaded (`_instance = None`,
\* line 57) and the threads that will ask for the instance.  An object has
\* its _initialized attribute ("unset" until line 69 or line 90 assigns it),
\* the number of times the body of __init__ (lines 78-88) was entered for it
\* and whether that body ever ran to its end; a thread has its position and
\* the object it holds.
Threads == 1..MaxThreads
NewObject == [initialized |-> "unset", inits |-> 0, complete |-> FALSE]
ClassLoaded ==
    [instance |-> 0, objects |-> <<>>,
     thread |-> [th \in Threads |-> [pc |-> "idle", self |-> 0]]]

\* ---------------------------------------------------------------- Init
\* SessionManager(expiry_hours, max_sessions), and no turn started.
Program(hours, max) ==
    /\ now = 0
    /\ expiry_hours = hours
    /\ max_sessions = max
    /\ sessions = <<>>
    /\ heap = <<>>
    /\ call = NoCall
    /\ pc = [t \in Turns |-> "Idle"]
    /\ session_id = [t \in Turns |-> ""]
    /\ format_as_sse = [t \in Turns |-> FALSE]
    /\ message_history = [t \in Turns |-> 0]
    /\ wrapped_history = [t \in Turns |-> 0]
    /\ chat_history = [t \in Turns |-> <<>>]
    /\ invoked = [t \in Turns |-> 0]
    /\ ai_message = [t \in Turns |-> <<>>]
    /\ sentences = [t \in Turns |-> <<>>]
    /\ out = [t \in Turns |-> <<>>]
    /\ overlap = FALSE
    /\ worker = [w \in Workers |-> IdleWorker]
    /\ ws = Accepted
    /\ cal = NotImported
    /\ singleton = ClassLoaded

Constructed(hours, max) ==
    /\ Program(hours, max)
    /\ chunker = NotChunked(<<>>)

\* A store constructed with any arguments.
InitStore ==
    \E hours \in 1..MaxExpiryArg, max \in 1..MaxSessionsArg : Constructed(hours, max)

\* session_manager = SessionManager(): the default expiry; max_sessions stands
\* for MAX_SESSIONS, scaled down so that the store can fill.
Init ==
    \E max \in 1..MaxSessionsArg : Constructed(SESSION_EXPIRY_HOURS, max)

\* No turn is between line 205 and the await of line 224: that stretch has no
\* suspension point, so nothing else runs on the event loop inside it.
LoopIdle == \A t \in Turns : pc[t] # "HistoryLoaded"

Running(t) == pc[t] \in {"HistoryLoaded", "AwaitingReasoning", "Emitting"}

\* ------------------------------------------------------------- actions
\* The clock advances.
Tick ==
    /\ LoopIdle
    /\ now + TickSeconds <= MaxTicks * TickSeconds
    /\ now' = now + TickSeconds
    /\ UNCHANGED <<storeVars, auxVars, sessions, heap, call, turnVars>>

\* A get_history call from outside a streaming turn (the history factory
\* handed to RunnableWithMessageHistory).
GetHistoryCall(sid) ==
    /\ LoopIdle
    /\ Creates(sid) => Len(heap) < MaxHistories
    /\ LET r == get_history(sessions, heap, sid, now) IN
        /\ sessions' = r.sessions
        /\ heap' = r.heap
        /\ call' = CallRecord(sid, r)
    /\ UNCHANGED <<now, storeVars, auxVars, turnVars>>

AddMessage_shared(H, h, m) == [x \in DOMAIN H |-> Append(H[x], m)]

AddMessage_window(H, h, m) ==
    [H EXCEPT ![h] = IF Len(@) >= 2 THEN Append(Tail(@), m) ELSE Append(@, m)]

\* A history that the store has dropped takes no more messages.
AddMessage_stored(H, h, m) ==
    IF \E i \in 1..Len(sessions) : sessions[i].history = h
    THEN [H EXCEPT ![h] = Append(@, m)]
    ELSE H

\* ChatMessageHistory.add_message, as lines 219 and 233 use it.
AddMessage(H, h, m) == [H EXCEPT ![h] = Append(@, m)]

\* The caller of get_history adds a message to the history it was given.
AddMessageCall(m) ==
    /\ LoopIdle
    /\ call # NoCall
    /\ m \notin Range(heap[call.history])
    /\ heap' = AddMessage(heap, call.history, m)
    /\ UNCHANGED <<now, storeVars, auxVars, sessions, call, turnVars>>

\* generate_openai_stream, line 205: the turn obtains its history.  Turns are
\* numbered in the order they start.
TurnStart(t, sid, sse) ==
    /\ pc[t] = "Idle"
    /\ LoopIdle
    /\ \A u \in Turns : u < t => pc[u] # "Idle"
    /\ Creates(sid) => Len(heap) < MaxHistories
    /\ LET r == get_history(sessions, heap, sid, now) IN
        /\ sessions' = r.sessions
        /\ heap' = r.heap
        /\ message_history' = [message_history EXCEPT ![t] = r.history]
    /\ pc' = [pc EXCEPT ![t] = "HistoryLoaded"]
    /\ session_id' = [session_id EXCEPT ![t] = sid]
    /\ format_as_sse' = [format_as_sse EXCEPT ![t] = sse]
    /\ overlap' = (overlap \/ \E u \in Turns : Running(u))
    /\ UNCHANGED <<now, storeVars, auxVars, call, wrapped_history, chat_history, invoked,
                   ai_message, sentences, out>>

\* Lines 219-227: the user message is added to the turn's history, then the
\* agent is invoked through RunnableWithMessageHistory, which asks the history
\* factory (line 213) for the session's history and hands its messages to the
\* agent as chat_history.
TurnInvoke(t) ==
    /\ pc[t] = "HistoryLoaded"
    /\ LET H1 == AddMessage(heap, message_history[t], HumanMessage(UserText(t)))
           r == get_history(sessions, H1, session_id[t], now)
       IN
        /\ sessions' = r.sessions
        /\ heap' = r.heap
        /\ wrapped_history' = [wrapped_history EXCEPT ![t] = r.history]
        /\ chat_history' = [chat_history EXCEPT ![t] = r.heap[r.history]]
    /\ invoked' = [invoked EXCEPT ![t] = @ + 1]
    /\ pc' = [pc EXCEPT ![t] = "AwaitingReasoning"]
    /\ UNCHANGED <<now, storeVars, auxVars, call, session_id, format_as_sse, message_history,
                   ai_message, sentences, out, overlap>>

\* RunnableWithMessageHistory, when the wrapped run ends without error, adds
\* the input message and the output message to the history it was given.
WrapperSaves(H, t, output) ==
    AddMessage(AddMessage(H, wrapped_history[t], HumanMessage(UserText(t))),
               wrapped_history[t], AIMessage(output))

\* The reply put right after the user message it answers.
SaveAIMessage_after_user(H, t, output) ==
    LET h == message_history[t]
        u == CHOOSE i \in 1..Len(H[h]) : H[h][i] = HumanMessage(UserText(t))
    IN [H EXCEPT ![h] = SubSeq(@, 1, u) \o <<AIMessage(output)>> \o SubSeq(@, u + 1, Len(@))]

\* Line 233.
SaveAIMessage(H, t, output) == AddMessage(H, message_history[t], AIMessage(output))

\* Lines 224-250: the agent returns; the reply is saved and cut into chunks.
ReasoningReturns(t, output) ==
    /\ pc[t] = "AwaitingReasoning"
    /\ LoopIdle
    /\ heap' = SaveAIMessage(WrapperSaves(heap, t, output), t, output)
    /\ ai_message' = [ai_message EXCEPT ![t] = output]
    /\ sentences' = [sentences EXCEPT ![t] = Sentences(output)]
    /\ pc' = [pc EXCEPT ![t] = IF Sentences(output) = <<>> THEN "Completed" ELSE "Emitting"]
    /\ UNCHANGED <<now, storeVars, auxVars, sessions, call, session_id, format_as_sse,
                   message_history, wrapped_history, chat_history, invoked, out, overlap>>

\* The chunks yielded from the last one to the first.
Emit_last_first(t) ==
    /\ pc[t] = "Emitting"
    /\ LoopIdle
    /\ out' = [out EXCEPT ![t] = Append(@, Frame(format_as_sse[t], sentences[t][Len(sentences[t])]))]
    /\ sentences' = [sentences EXCEPT ![t] = SubSeq(@, 1, Len(@) - 1)]
    /\ pc' = [pc EXCEPT ![t] = IF Len(sentences[t]) = 1 THEN "Completed" ELSE "Emitting"]
    /\ UNCHANGED <<now, storeVars, auxVars, sessions, heap, call, session_id, format_as_sse,
                   message_history, wrapped_history, chat_history, invoked,
                   ai_message, overlap>>

\* The generator does not end after its last chunk.
Emit_never_ends(t) ==
    /\ pc[t] = "Emitting"
    /\ LoopIdle
    /\ sentences[t] # <<>>
    /\ out' = [out EXCEPT ![t] = Append(@, Frame(format_as_sse[t], Head(sentences[t])))]
    /\ sentences' = [sentences EXCEPT ![t] = Tail(@)]
    /\ UNCHANGED <<now, storeVars, auxVars, sessions, heap, call, pc, session_id,
                   format_as_sse, message_history, wrapped_history, chat_history, invoked,
                   ai_message, overlap>>

\* Lines 253-258: one chunk is yielded.
Emit(t) ==
    /\ pc[t] = "Emitting"
    /\ LoopIdle
    /\ out' = [out EXCEPT ![t] = Append(@, Frame(format_as_sse[t], Head(sentences[t])))]
    /\ sentences' = [sentences EXCEPT ![t] = Tail(@)]
    /\ pc' = [pc EXCEPT ![t] = IF Tail(sentences[t]) = <<>> THEN "Completed" ELSE "Emitting"]
    /\ UNCHANGED <<now, storeVars, auxVars, sessions, heap, call, session_id, format_as_sse,
                   message_history, wrapped_history, chat_history, invoked,
                   ai_message, overlap>>

ErrorOutput_chunked(sse, e) ==
    LET parts == Sentences(ErrorPrefix \o e) IN
    [i \in 1..Len(parts) |-> Frame(sse, parts[i])]

\* Lines 260-268: what is yielded when the agent raised e.
ErrorOutput(sse, e) == <<Frame(sse, ErrorPrefix \o e)>>

ReasoningFails_retry(t, e) ==
    /\ pc[t] = "AwaitingReasoning"
    /\ LoopIdle
    /\ invoked[t] < 2
    /\ invoked' = [invoked EXCEPT ![t] = @ + 1]
    /\ UNCHANGED <<now, storeVars, auxVars, sessions, heap, call, pc, session_id, format_as_sse,
                   message_history, wrapped_history, chat_history, out,
                   ai_message, sentences, overlap>>

ReasoningFails(t, e) ==
    /\ pc[t] = "AwaitingReasoning"
    /\ LoopIdle
    /\ out' = [out EXCEPT ![t] = @ \o ErrorOutput(format_as_sse[t], e)]
    /\ pc' = [pc EXCEPT ![t] = "Failed"]
    /\ UNCHANGED <<now, storeVars, auxVars, sessions, heap, call, session_id, format_as_sse,
                   message_history, wrapped_history, chat_history, invoked,
                   ai_message, sentences, overlap>>

\* The store on its own: any sequence of get_history calls as time passes.
NextStore ==
    \/ Tick
    \/ \E sid \in SessionIds : GetHistoryCall(sid)
    \/ \E m \in CallerMessages : AddMessageCall(m)

SpecStore == InitStore /\ [][NextStore]_vars

\* Streaming turns over the store.
Next ==
    \/ Tick
    \/ \E t \in Turns, sid \in TurnSessionIds, sse \in BOOLEAN : TurnStart(t, sid, sse)
    \/ \E t \in Turns : TurnInvoke(t)
    \/ \E t \in Turns : \E output \in Replies(t) : ReasoningReturns(t, output)
    \/ \E t \in Turns : Emit(t)
    \/ \E t \in Turns : \E e \in Errors : ReasoningFails(t, e)

Spec == Init /\ [][Next]_vars

\* ------------------------------------------------------------- SpecLive
\* Streaming turns under the scheduling of the event loop.  A generator that
\* has loaded its history runs on to the agent call without an await (lines
\* 205-224), and after each `await asyncio.sleep(0.01)` (line 258) the loop
\* resumes it: both steps are taken when they stay possible.  The agent call
\* is assumed to come to an end, by returning or by raising.  The clock
\* stands still: no step of a turn waits for a time.
AgentEnds(t) ==
    \/ \E output \in Replies(t) : ReasoningReturns(t, output)
    \/ \E e \in Errors : ReasoningFails(t, e)

Fairness ==
    \A t \in Turns :
        /\ WF_vars(TurnInvoke(t))
        /\ WF_vars(AgentEnds(t))
        /\ WF_vars(Emit(t))

NextLive ==
    \/ \E t \in Turns, sid \in TurnSessionIds, sse \in BOOLEAN : TurnStart(t, sid, sse)
    \/ \E t \in Turns : TurnInvoke(t)
    \/ \E t \in Turns : AgentEnds(t)
    \/ \E t \in Turns : Emit(t)

SpecLive == Init /\ [][NextLive]_vars /\ Fairness

\* ------------------------------------------------------- SpecDisconnect
\* The client of a streaming turn goes away.  The generator is driven by the
\* endpoint (main.py): the WebSocket loop of lines 107-117 does not read the
\* socket while it iterates the generator, so it sees the disconnect only
\* when it sends the next fragment; the response of /chat and /message is
\* streamed by the framework, which may cancel the generator at its pending
\* await (CancelledError is not caught at line 260) or may see the
\* disconnect only at its next send.
DisconnectPending(t) ==
    /\ pc[t] = "AwaitingReasoning"
    /\ pc' = [pc EXCEPT ![t] = "PendingDisconnected"]
    /\ UNCHANGED <<now, storeVars, auxVars, sessions, heap, call, session_id, format_as_sse,
                   message_history, wrapped_history, chat_history, invoked,
                   ai_message, sentences, out, overlap>>

\* The history put back to what it was before the reply that was not delivered.
DisconnectEmitting_rollback(t) ==
    /\ pc[t] = "Emitting"
    /\ pc' = [pc EXCEPT ![t] = "Dropped"]
    /\ heap' = [heap EXCEPT ![message_history[t]] = SubSeq(@, 1, Len(@) - 1)]
    /\ UNCHANGED <<now, storeVars, auxVars, sessions, call, session_id, format_as_sse,
                   message_history, wrapped_history, chat_history, invoked,
                   ai_message, sentences, out, overlap>>

\* The client goes away during delivery: the fragments left are not delivered.
DisconnectEmitting(t) ==
    /\ pc[t] = "Emitting"
    /\ pc' = [pc EXCEPT ![t] = "Dropped"]
    /\ UNCHANGED <<now, storeVars, auxVars, sessions, heap, call, session_id, format_as_sse,
                   message_history, wrapped_history, chat_history, invoked,
                   ai_message, sentences, out, overlap>>

\* The reasoning call returns after the client went away: lines 230-250 run as
\* usual, and the first fragment finds no client.
ReturnsAfterDisconnect(t, output) ==
    /\ pc[t] = "PendingDisconnected"
    /\ LoopIdle
    /\ heap' = SaveAIMessage(WrapperSaves(heap, t, output), t, output)
    /\ ai_message' = [ai_message EXCEPT ![t] = output]
    /\ sentences' = [sentences EXCEPT ![t] = Sentences(output)]
    /\ pc' = [pc EXCEPT ![t] = "Dropped"]
    /\ UNCHANGED <<now, storeVars, auxVars, sessions, call, session_id, format_as_sse,
                   message_history, wrapped_history, chat_history, invoked, out, overlap>>

\* The reasoning call fails after the client went away: the error message
\* finds no client.
FailsAfterDisconnect(t) ==
    /\ pc[t] = "PendingDisconnected"
    /\ LoopIdle
    /\ pc' = [pc EXCEPT ![t] = "Failed"]
    /\ UNCHANGED <<now, storeVars, auxVars, sessions, heap, call, session_id, format_as_sse,
                   message_history, wrapped_history, chat_history, invoked,
                   ai_message, sentences, out, overlap>>

\* The framework cancels the generator of a streamed HTTP response at its
\* pending await.
CancelPending(t) ==
    /\ pc[t] = "PendingDisconnected"
    /\ format_as_sse[t]
    /\ LoopIdle
    /\ pc' = [pc EXCEPT ![t] = "Cancelled"]
    /\ UNCHANGED <<now, storeVars, auxVars, sessions, heap, call, session_id, format_as_sse,
                   message_history, wrapped_history, chat_history, invoked,
                   ai_message, sentences, out, overlap>>

NextDisconnect ==
    \/ \E t \in Turns, sid \in TurnSessionIds, sse \in BOOLEAN : TurnStart(t, sid, sse)
    \/ \E t \in Turns : TurnInvoke(t)
    \/ \E t \in Turns : \E output \in Replies(t) : ReasoningReturns(t, output)
    \/ \E t \in Turns : Emit(t)
    \/ \E t \in Turns : \E e \in Errors : ReasoningFails(t, e)
    \/ \E t \in Turns : DisconnectPending(t)
    \/ \E t \in Turns : DisconnectEmitting(t)
    \/ \E t \in Turns : \E output \in Replies(t) : ReturnsAfterDisconnect(t, output)
    \/ \E t \in Turns : FailsAfterDisconnect(t)
    \/ \E t \in Turns : CancelPending(t)

SpecDisconnect == Init /\ [][NextDisconnect]_vars

\* --------------------------------------------------------- SpecChainlit
\* Chainlit turns.  main() sends the processing message and hands agent.invoke
\* to a worker thread (cl.make_async, lines 124-128).  In that thread the
\* history wrapper calls session_manager.get_history, which takes no lock, so
\* the statements of get_history run by different threads interleave; one
\* action is one statement (the interpreter switches threads between
\* bytecodes).
InGetHistory == {"sweep", "delete", "lookup", "capacity", "pick", "evict", "insert"}

ChainlitOnly == UNCHANGED <<storeVars, call, turnVars, chunker, ws, calVars>>

\* Lines 103-128.
ChainlitStart(w, sid) ==
    /\ worker[w].pc = "idle"
    /\ \A v \in Workers : v < w => worker[v].pc # "idle"
    /\ worker' = [worker EXCEPT ![w].pc = "sweep",
                                ![w].session_id = sid,
                                ![w].sent = <<ProcessingMessage>>]
    /\ UNCHANGED <<now, sessions, heap>>
    /\ ChainlitOnly

\* chat.py lines 162-166: the list of the expired ids.
SweepCollect(w) ==
    /\ worker[w].pc = "sweep"
    /\ LET expired == SelectSeq(sessions, LAMBDA r : Expired(r, now)) IN
       worker' = [worker EXCEPT ![w].pc = "delete",
                                ![w].expired_sessions = [i \in 1..Len(expired) |-> expired[i].id]]
    /\ UNCHANGED <<now, sessions, heap>>
    /\ ChainlitOnly

\* The handler's except branch (chainlit_app.py lines 142-150) after the
\* worker thread raised.
Raise(w) ==
    [worker EXCEPT ![w].pc = "failed", ![w].raised = TRUE,
                   ![w].sent = Append(@, ErrorMessage)]

\* chat.py lines 168-170: one `del self.sessions[session_id]`; KeyError when
\* another thread has deleted the key.
SweepDelete(w) ==
    /\ worker[w].pc = "delete"
    /\ IF worker[w].expired_sessions = <<>>
       THEN /\ worker' = [worker EXCEPT ![w].pc = "lookup"]
            /\ UNCHANGED sessions
       ELSE LET sid == Head(worker[w].expired_sessions) IN
            IF sid \in Ids(sessions)
            THEN /\ sessions' = RemoveAt(sessions, IndexOf(sessions, sid))
                 /\ worker' = [worker EXCEPT ![w].expired_sessions = Tail(@)]
            ELSE /\ worker' = Raise(w)
                 /\ UNCHANGED sessions
    /\ UNCHANGED <<now, heap>>
    /\ ChainlitOnly

\* chat.py lines 141-145.
Lookup(w) ==
    /\ worker[w].pc = "lookup"
    /\ LET sid == worker[w].session_id IN
       IF sid \in Ids(sessions)
       THEN /\ sessions' = [sessions EXCEPT ![IndexOf(sessions, sid)].last_access = now]
            /\ worker' = [worker EXCEPT ![w].pc = "agent",
                                        ![w].history = Record(sessions, sid).history]
       ELSE /\ worker' = [worker EXCEPT ![w].pc = "capacity"]
            /\ UNCHANGED sessions
    /\ UNCHANGED <<now, heap>>
    /\ ChainlitOnly

\* chat.py line 148.
Capacity(w) ==
    /\ worker[w].pc = "capacity"
    /\ worker' = [worker EXCEPT ![w].pc = IF AtCapacity(sessions) THEN "pick" ELSE "insert"]
    /\ UNCHANGED <<now, sessions, heap>>
    /\ ChainlitOnly

\* chat.py lines 176-179.
PickOldest(w) ==
    /\ worker[w].pc = "pick"
    /\ worker' = IF sessions = <<>>
                 THEN [worker EXCEPT ![w].pc = "insert"]
                 ELSE [worker EXCEPT ![w].pc = "evict",
                                     ![w].oldest_session = sessions[OldestIndex(sessions)].id]
    /\ UNCHANGED <<now, sessions, heap>>
    /\ ChainlitOnly

\* chat.py line 183: `del self.sessions[oldest_session]`; KeyError when
\* another thread has deleted the key.
Evict(w) ==
    /\ worker[w].pc = "evict"
    /\ IF worker[w].oldest_session \in Ids(sessions)
       THEN /\ sessions' = RemoveAt(sessions, IndexOf(sessions, worker[w].oldest_session))
            /\ worker' = [worker EXCEPT ![w].pc = "insert"]
       ELSE /\ worker' = Raise(w)
            /\ UNCHANGED sessions
    /\ UNCHANGED <<now, heap>>
    /\ ChainlitOnly

\* chat.py lines 151-158: a new history is stored under the id; an id that
\* another thread has stored meanwhile keeps its place in the dict and gets
\* the new record.
Insert(w) ==
    /\ worker[w].pc = "insert"
    /\ Len(heap) < MaxHistories
    /\ LET sid == worker[w].session_id
           r == [id |-> sid, history |-> Len(heap) + 1, last_access |-> now]
       IN
        /\ sessions' = IF sid \in Ids(sessions)
                       THEN [sessions EXCEPT ![IndexOf(sessions, sid)] = r]
                       ELSE Append(sessions, r)
        /\ heap' = Append(heap, <<>>)
        /\ worker' = [worker EXCEPT ![w].pc = "agent", ![w].history = Len(heap) + 1]
    /\ UNCHANGED now
    /\ ChainlitOnly

\* The agent returns: the history wrapper adds the input and the output to
\* the history it got; main() removes the processing message and sends the
\* output (chainlit_app.py lines 131-134).
AgentReturns(w, output) ==
    /\ worker[w].pc = "agent"
    /\ heap' = AddMessage(AddMessage(heap, worker[w].history, HumanMessage(ChainlitText(w))),
                          worker[w].history, AIMessage(output))
    /\ worker' = [worker EXCEPT ![w].pc = "done", ![w].sent = <<FinalMessage(output)>>]
    /\ UNCHANGED <<now, sessions>>
    /\ ChainlitOnly

\* The agent raises: the wrapper adds nothing, main() sends the error message
\* (chainlit_app.py lines 142-150).
AgentFails(w) ==
    /\ worker[w].pc = "agent"
    /\ worker' = [worker EXCEPT ![w].pc = "failed", ![w].sent = Append(@, ErrorMessage)]
    /\ UNCHANGED <<now, sessions, heap>>
    /\ ChainlitOnly

NextChainlit ==
    \/ Tick
    \/ \E w \in Workers, sid \in TurnSessionIds : ChainlitStart(w, sid)
    \/ \E w \in Workers : SweepCollect(w)
    \/ \E w \in Workers : SweepDelete(w)
    \/ \E w \in Workers : Lookup(w)
    \/ \E w \in Workers : Capacity(w)
    \/ \E w \in Workers : PickOldest(w)
    \/ \E w \in Workers : Evict(w)
    \/ \E w \in Workers : Insert(w)
    \/ \E w \in Workers : \E output \in Replies(w) : AgentReturns(w, output)
    \/ \E w \in Workers : AgentFails(w)

SpecChainlit == Init /\ [][NextChainlit]_vars

\* --------------------------------------------------------------- SpecWs
\* One WebSocket connection (main.py lines 97-125).  Each payload that parses
\* runs one turn with format_as_sse = False, and every chunk the turn yields
\* is sent on the socket (line 119), so the texts sent on the socket are the
\* chunks yielded by the connection's turns, in turn order.
\* The turns of the connection: those started with format_as_sse=False
\* (line 118); the HTTP endpoints start theirs with format_as_sse=True.
StartedTurns == {t \in Turns : pc[t] # "Idle" /\ ~format_as_sse[t]}
RECURSIVE YieldedUpTo(_)
YieldedUpTo(t) ==
    IF t = 0 THEN 0
    ELSE (IF t \in StartedTurns THEN Len(out[t]) ELSE 0) + YieldedUpTo(t - 1)
WsSent == YieldedUpTo(MaxTurns)
\* The next payload read while a turn is still being sent.
WsReceiving_eager == ws.state = "open"

\* Line 110: the handler is at `await websocket.receive_text()`, which it
\* reaches only when the `async for` of line 118 is exhausted.
WsReceiving ==
    /\ ws.state = "open"
    /\ Cardinality(StartedTurns) = ws.requests
    /\ \A t \in StartedTurns : ~Running(t)

\* Lines 110-113: a text frame arrives and is parsed.  A frame that does not
\* parse raises into `except Exception` (lines 123-125): the error is logged
\* and the socket is closed.
WsReceive(payload) ==
    /\ WsReceiving
    /\ ws.requests < MaxTurns
    /\ ws' = IF Parses(payload)
             THEN [ws EXCEPT !.requests = @ + 1,
                             !.session_id = PayloadSessionId(payload),
                             !.sent_at_receive = WsSent]
             ELSE [ws EXCEPT !.state = "closed",
                             !.failure = TRUE,
                             !.sent_at_receive = WsSent]
    /\ UNCHANGED <<now, storeVars, sessions, heap, call, turnVars, chunker, worker, calVars>>

\* Lines 121-122: the client closes the socket while the handler waits for
\* the next frame.
WsDisconnect ==
    /\ WsReceiving
    /\ ws' = [ws EXCEPT !.state = "closed"]
    /\ UNCHANGED <<now, storeVars, sessions, heap, call, turnVars, chunker, worker, calVars>>

\* Line 118: the turn of the payload just parsed.
WsTurnStart(t) ==
    /\ ws.state = "open"
    /\ Cardinality(StartedTurns) < ws.requests
    /\ TurnStart(t, ws.session_id, FALSE)

NextWs ==
    \/ \E payload \in WsPayloads : WsReceive(payload)
    \/ WsDisconnect
    \/ \E t \in Turns : WsTurnStart(t)
    \/ \E t \in Turns : TurnInvoke(t)
    \/ \E t \in Turns : \E output \in Replies(t) : ReasoningReturns(t, output)
    \/ \E t \in Turns : Emit(t)
    \/ \E t \in Turns : \E e \in Errors : ReasoningFails(t, e)

SpecWs == Init /\ [][NextWs]_vars

\* ------------------------------------------------------------ SpecEntry
\* The WebSocket connection together with requests to /chat and /message.
\* main.py lines 51-59 (/chat) and 80-88 (/message): the body is parsed,
\* session_id is data.get("session_id", "default"), and the turn is started
\* with format_as_sse=True when the response is streamed.  The two endpoints
\* differ only in the name of the message field.  A body that is not a JSON
\* object raises before a turn exists.
HttpTurnStart(t, payload) ==
    /\ Parses(payload)
    /\ TurnStart(t, PayloadSessionId(payload), TRUE)

NextEntry ==
    \/ NextWs
    \/ \E t \in Turns : \E payload \in WsPayloads : HttpTurnStart(t, payload)

SpecEntry == Init /\ [][NextEntry]_vars

\* ------------------------------------------------------------ SpecChunk
\* The chunking loop of lines 236-250 on a text drawn from ChunkInputs.
InitChunk ==
    /\ Program(SESSION_EXPIRY_HOURS, 1)
    /\ \E T \in ChunkInputs : chunker = NotChunked(T)

ChunkText ==
    /\ ~chunker.done
    /\ chunker' = [chunker EXCEPT !.sentences = Sentences(chunker.ai_message),
                                  !.done = TRUE]
    /\ UNCHANGED <<now, storeVars, sessions, heap, call, turnVars, worker, ws, calVars>>

NextChunk == ChunkText

SpecChunk == InitChunk /\ [][NextChunk]_vars

\* -------------------------------------------------------------- SpecCal
\* The tools of calendar_tools.py, the operations of CalApiService that
\* check more than the tools do, and make_api_request, each called with
\* arguments and server answers drawn from small sets.  A call is one
\* action: the tools are synchronous functions.
CalOnly ==
    UNCHANGED <<now, storeVars, sessions, heap, call, turnVars, chunker, worker, ws, singleton>>

\* What is kept from one call to the next: whether the module is imported,
\* the key the service loaded, the error lines logged.
Kept == [NotImported EXCEPT !.pc = cal.pc, !.api_key = cal.api_key, !.reports = cal.reports]

Called(op, account, invalid) ==
    [Kept EXCEPT !.op = op, !.account = account, !.invalid = invalid,
                 !.reports = @ + account.reports]

\* calendar_tools.py line 18, run when the module is imported:
\* CalApiService.get_instance() constructs the service.  The environment
\* has the API key or has not.  An exception let out of __init__ fails the
\* import.
Import(api_key, event_types, profile) ==
    /\ cal.pc = "not_imported"
    /\ LET account == Initialize(api_key, event_types, profile) IN
       cal' = [Called("import", account, FALSE) EXCEPT
                 !.api_key = api_key,
                 !.pc = IF account.result.kind = "raised" THEN "import_failed" ELSE "ready"]
    /\ CalOnly

\* Nothing in the code ends the process or disables a tool when the key is
\* missing: a call needs only the imported module.
Ready == cal.pc = "ready" /\ cal.reports < MaxReports

GetAvailableSlots(valid, response) ==
    /\ Ready
    /\ cal' = Called("get_available_slots",
                     get_available_slots(cal.api_key, valid, response), ~valid)
    /\ CalOnly

BookNewAppointment(event_type_id, valid, response) ==
    /\ Ready
    /\ cal' = Called("book_new_appointment",
                     book_new_appointment(cal.api_key, event_type_id, valid, response),
                     Falsy(event_type_id) \/ ~IsInt(event_type_id) \/ ~valid)
    /\ CalOnly

GetUserBookings(attendee_email, attendee_name, response) ==
    /\ Ready
    /\ cal' = Called("get_user_bookings",
                     get_user_bookings(cal.api_key, attendee_email, attendee_name, response),
                     attendee_email = "" /\ attendee_name = "")
    /\ CalOnly

GetBookingByUid(booking_uid, response) ==
    /\ Ready
    /\ cal' = Called("get_booking_by_uid",
                     get_booking_by_uid(cal.api_key, booking_uid, response),
                     booking_uid = "")
    /\ CalOnly

RescheduleAppointment(booking_uid, valid, response) ==
    /\ Ready
    /\ cal' = Called("reschedule_appointment",
                     reschedule_appointment(cal.api_key, booking_uid, valid, response),
                     booking_uid = "" \/ ~valid)
    /\ CalOnly

CancelAppointment(booking_uid, cancel_subsequent_bookings, fetched, response) ==
    /\ Ready
    /\ cal' = [Called("cancel_appointment",
                      cancel_appointment(cal.api_key, booking_uid,
                                         cancel_subsequent_bookings, fetched, response),
                      booking_uid = "") EXCEPT
                 !.fetched = fetched, !.flag = cancel_subsequent_bookings]
    /\ CalOnly

\* CalApiService.get_bookable_slots and create_new_booking called directly:
\* they check arguments that the tools always supply.
GetBookableSlots(start, end, response) ==
    /\ Ready
    /\ cal' = Called("get_bookable_slots",
                     get_bookable_slots(cal.api_key, start, end, response),
                     start = "" \/ end = "")
    /\ CalOnly

CreateNewBooking(event_type_id, start, attendee, response) ==
    /\ Ready
    /\ cal' = Called("create_new_booking",
                     create_new_booking(cal.api_key, event_type_id, start, attendee, response),
                     Falsy(event_type_id) \/ start = "" \/ attendee # "full")
    /\ CalOnly

\* make_api_request called directly, with any method.
MakeApiRequest(method, response) ==
    /\ Ready
    /\ cal' = [Kept EXCEPT !.op = "make_api_request", !.method = method,
                           !.response = response,
                           !.returned = make_api_request(method, response)]
    /\ CalOnly

NextCal ==
    \/ \E api_key \in BOOLEAN, event_types \in Responses, profile \in Responses :
          Import(api_key, event_types, profile)
    \/ \E valid \in BOOLEAN, response \in Responses : GetAvailableSlots(valid, response)
    \/ \E event_type_id \in EventTypeIds, valid \in BOOLEAN, response \in Responses :
          BookNewAppointment(event_type_id, valid, response)
    \/ \E attendee_email \in Strings, attendee_name \in Strings, response \in Responses :
          GetUserBookings(attendee_email, attendee_name, response)
    \/ \E booking_uid \in Strings, response \in Responses :
          GetBookingByUid(booking_uid, response)
    \/ \E booking_uid \in Strings, valid \in BOOLEAN, response \in Responses :
          RescheduleAppointment(booking_uid, valid, response)
    \/ \E booking_uid \in Strings, flag \in Flags, fetched \in Responses,
          response \in Responses :
          CancelAppointment(booking_uid, flag, fetched, response)
    \/ \E start \in Strings, end \in Strings, response \in Responses :
          GetBookableSlots(start, end, response)
    \/ \E event_type_id \in EventTypeIds, start \in Strings, attendee \in Attendees,
          response \in Responses :
          CreateNewBooking(event_type_id, start, attendee, response)
    \/ \E method \in Methods, response \in Responses : MakeApiRequest(method, response)

SpecCal == Init /\ [][NextCal]_vars

\* -------------------------------------------------------- SpecSingleton
\* Threads that call CalApiService() or CalApiService.get_instance().  A
\* step is what a thread does between two points where another thread may
\* run: each reads or writes cls._instance or an object's _initialized at
\* most once.  `with threading.Lock():` (line 66) creates a lock of its own
\* in every call, so entering it never waits and excludes nobody; __init__
\* and get_instance take no lock at all.
SingletonOnly ==
    UNCHANGED <<now, storeVars, sessions, heap, call, turnVars, chunker, worker, ws, cal>>

At(th, pc_, self) ==
    [singleton EXCEPT !.thread[th] = [pc |-> pc_, self |-> self]]
Goto(th, pc_) == At(th, pc_, singleton.thread[th].self)

\* A thread calls CalApiService(): __new__, then __init__ on what it returns.
CallClass(th) ==
    /\ singleton.thread[th].pc = "idle"
    /\ singleton' = At(th, "new_check", 0)
    /\ SingletonOnly

\* A thread calls get_instance(); line 500 reads cls._instance: None leads
\* to cls() (line 501), anything else to line 502.
GetInstance(th) ==
    /\ singleton.thread[th].pc = "idle"
    /\ singleton' = At(th, IF singleton.instance = 0 THEN "new_check" ELSE "return_instance", 0)
    /\ SingletonOnly

\* Line 502: `return cls._instance`, with no look at _initialized.
ReturnInstance(th) ==
    /\ singleton.thread[th].pc = "return_instance"
    /\ singleton' = At(th, "using", singleton.instance)
    /\ SingletonOnly

\* Lines 66-67: the fresh lock is taken and cls._instance is tested.
NewCheck(th) ==
    /\ singleton.thread[th].pc = "new_check"
    /\ singleton' = Goto(th, IF singleton.instance = 0 THEN "new_create" ELSE "new_return")
    /\ SingletonOnly

\* Line 68: an object is created and stored in cls._instance.
NewCreate(th) ==
    /\ singleton.thread[th].pc = "new_create"
    /\ singleton' = [Goto(th, "new_flag") EXCEPT
                       !.objects = Append(@, NewObject),
                       !.instance = Len(singleton.objects) + 1]
    /\ SingletonOnly

\* Line 69: `cls._instance._initialized = False` reads cls._instance again.
NewFlag(th) ==
    /\ singleton.thread[th].pc = "new_flag"
    /\ singleton' = [Goto(th, "new_return") EXCEPT
                       !.objects[singleton.instance].initialized = "False"]
    /\ SingletonOnly

\* Line 70: `return cls._instance`; __init__ is then called on it.
NewReturn(th) ==
    /\ singleton.thread[th].pc = "new_return"
    /\ singleton' = At(th, "init_check", singleton.instance)
    /\ SingletonOnly

\* Lines 75-76: `if getattr(self, '_initialized', False): return`.
InitCheck(th) ==
    /\ singleton.thread[th].pc = "init_check"
    /\ singleton' = Goto(th, IF singleton.objects[singleton.thread[th].self].initialized = "True"
                             THEN "using" ELSE "init_body")
    /\ SingletonOnly

\* Lines 78-88: the key is loaded, the event types and the profile are
\* fetched (blocking requests, during which other threads run).
InitBody(th) ==
    /\ singleton.thread[th].pc = "init_body"
    /\ singleton' = [Goto(th, "init_end") EXCEPT
                       !.objects[singleton.thread[th].self].inits = @ + 1]
    /\ SingletonOnly

\* Line 90: `self._initialized = True`; the constructor returns.
InitEnd(th) ==
    /\ singleton.thread[th].pc = "init_end"
    /\ singleton' = [Goto(th, "using") EXCEPT
                       !.objects[singleton.thread[th].self].initialized = "True",
                       !.objects[singleton.thread[th].self].complete = TRUE]
    /\ SingletonOnly

NextSingleton ==
    \E th \in Threads :
        \/ CallClass(th)
        \/ GetInstance(th)
        \/ ReturnInstance(th)
        \/ NewCheck(th)
        \/ NewCreate(th)
        \/ NewFlag(th)
        \/ NewReturn(th)
        \/ InitCheck(th)
        \/ InitBody(th)
        \/ InitEnd(th)

SpecSingleton == Init /\ [][NextSingleton]_vars

\* =====================================================================
\* Properties of the session store, checked under SpecStore.  They read the
\* last direct call from `call`; between two calls the store does not change.
\* =====================================================================
ExpirySeconds == expiry_hours * SecondsPerHour
Histories(S) == {S[i].history : i \in 1..Len(S)}
AgeAtCall(r) == call.time - r.last_access

\* The records of the store before the last call that were not older than the
\* expiry duration at the time of the call, in the store's order.
CallKept == SelectSeq(call.before, LAMBDA r : AgeAtCall(r) <= ExpirySeconds)
CallAdmits == call # NoCall /\ call.sid \notin Ids(CallKept)
CallEvicts == CallAdmits /\ Len(CallKept) >= max_sessions
IsCallStep == call'.flip # call.flip

\* C1: after every get_history call the store holds at most max_sessions
\* sessions.
C1_SizeBounded == Len(sessions) <= max_sessions

C1_Witness == CallEvicts /\ Len(sessions) = max_sessions /\ max_sessions = MaxSessionsArg

\* C2: after a get_history call made at time `now` no stored session is older
\* than the expiry duration; a record aged exactly the expiry duration survives
\* the sweep; the sweep comes before the lookup (an expired record of the
\* requested id is not returned) and before the capacity check (a record that
\* is not expired is dropped only when the call admits a new id into a store
\* that is still full after the sweep, and then only one is).
C2_SweptBeforeLookupAndCapacity ==
    call # NoCall =>
        /\ \A i \in 1..Len(sessions) : AgeAtCall(sessions[i]) <= ExpirySeconds
        /\ \A i \in 1..Len(call.before) :
               AgeAtCall(call.before[i]) > ExpirySeconds =>
                   /\ call.before[i].history \notin Histories(sessions)
                   /\ call.before[i].history # call.history
        /\ Cardinality(Histories(CallKept) \ Histories(sessions))
               <= (IF CallEvicts THEN 1 ELSE 0)

C2_Witness ==
    /\ call # NoCall
    /\ \E i, j \in 1..Len(call.before) :
        /\ AgeAtCall(call.before[i]) > ExpirySeconds
        /\ AgeAtCall(call.before[j]) = ExpirySeconds
        /\ call.before[j].id # call.sid
        /\ call.before[j].history \in Histories(sessions)
        /\ call.before[i].history \notin Histories(sessions)

\* C3: a get_history call for an unseen id on a store still full after the
\* sweep removes exactly one record, the first in insertion order among those
\* with the smallest last_access, and appends a record for the new id with a
\* new, empty history and last_access = now.  So N+1 distinct ids with no time
\* passing leave N sessions without the first-inserted one, and with
\* max_sessions = 2 the calls a, b, a, c leave a and c.
C3_EvictsLeastRecentlyAccessed ==
    /\ CallEvicts =>
         \E v \in 1..Len(CallKept) :
            /\ \A j \in 1..Len(CallKept) : CallKept[v].last_access <= CallKept[j].last_access
            /\ \A j \in 1..(v - 1) : CallKept[j].last_access # CallKept[v].last_access
            /\ sessions = Append(RemoveAt(CallKept, v),
                                 [id |-> call.sid, history |-> call.history,
                                  last_access |-> call.time])
            /\ call.history \notin Histories(call.before)
            /\ call.messages = <<>>
    /\ ( /\ call # NoCall
         /\ Len(call.before) = max_sessions
         /\ call.sid \notin Ids(call.before)
         /\ \A i \in 1..Len(call.before) : call.before[i].last_access = call.time )
       => /\ Len(sessions) = max_sessions
          /\ call.before[1].id \notin Ids(sessions)
          /\ call.sid \in Ids(sessions)
    /\ ( /\ call # NoCall
         /\ max_sessions = 2
         /\ call.sid = "c"
         /\ Len(call.before) = 2
         /\ call.before[1].id = "a"
         /\ call.before[2].id = "b"
         /\ call.before[1].last_access > call.before[2].last_access
         /\ AgeAtCall(call.before[2]) <= ExpirySeconds )
       => Ids(sessions) = {"a", "c"}

C3_Witness ==
    /\ CallEvicts
    /\ max_sessions = 2
    /\ call.sid = "c"
    /\ Len(call.before) = 2
    /\ call.before[1].id = "a"
    /\ call.before[2].id = "b"
    /\ call.before[1].last_access > call.before[2].last_access
    /\ call.time > call.before[1].last_access
    /\ Ids(sessions) = {"a", "c"}

\* C4: a get_history call for an id whose record is in the store and not
\* expired returns that record's history, leaves every history's messages as
\* they were, sets the record's last_access to now, and removes no record that
\* is not expired, whether or not the store is full.
C4_Step ==
    LET kept == SelectSeq(sessions, LAMBDA r : now - r.last_access <= ExpirySeconds) IN
    (IsCallStep /\ call'.sid \in Ids(kept)) =>
        /\ call'.history = Record(kept, call'.sid).history
        /\ heap' = heap
        /\ call'.messages = heap[call'.history]
        /\ Len(sessions') = Len(kept)
        /\ \A i \in 1..Len(kept) :
               sessions'[i] = IF kept[i].id = call'.sid
                              THEN [kept[i] EXCEPT !.last_access = now]
                              ELSE kept[i]

C5_Original ==
    call # NoCall =>
        \A i \in 1..Len(call.before) :
            /\ AgeAtCall(call.before[i]) > ExpirySeconds
                   => call.before[i].history \notin Histories(sessions)
            /\ AgeAtCall(call.before[i]) < ExpirySeconds
                   => call.before[i].history \in Histories(sessions)

\* C5, amended: ... and a session last accessed less than the expiry duration
\* before the call is still there, unless the call admits an unseen id into a
\* store that is full after the sweep and the session is the one evicted: it
\* then has the smallest last_access of the sessions that are not expired.
C5_ExpiryUnlessEvicted ==
    call # NoCall =>
        /\ \A i \in 1..Len(call.before) :
            /\ AgeAtCall(call.before[i]) > ExpirySeconds
                   => call.before[i].history \notin Histories(sessions)
            /\ ( /\ AgeAtCall(call.before[i]) < ExpirySeconds
                 /\ call.before[i].history \notin Histories(sessions) )
                   => /\ CallEvicts
                      /\ \A j \in 1..Len(CallKept) :
                             call.before[i].last_access <= CallKept[j].last_access
        /\ Cardinality({i \in 1..Len(call.before) :
                            /\ AgeAtCall(call.before[i]) < ExpirySeconds
                            /\ call.before[i].history \notin Histories(sessions)}) <= 1

C5_Witness ==
    /\ call # NoCall
    /\ expiry_hours = 2
    /\ \E i, j \in 1..Len(call.before) :
        /\ AgeAtCall(call.before[i]) > ExpirySeconds
        /\ AgeAtCall(call.before[j]) < ExpirySeconds
        /\ AgeAtCall(call.before[j]) > 0
        /\ call.sid \notin {call.before[i].id, call.before[j].id}
        /\ call.before[i].history \notin Histories(sessions)
        /\ call.before[j].history \in Histories(sessions)

\* =====================================================================
\* Properties of the streaming turn, checked under Spec.
\* =====================================================================
Count(s, m) == Cardinality({i \in 1..Len(s) : s[i] = m})
Contents(frames) == [i \in 1..Len(frames) |-> frames[i].content]
Started(t) == pc[t] # "Idle"
Invoked(t) == pc[t] \notin {"Idle", "HistoryLoaded"}
Loads(t) == pc[t] = "Idle" /\ pc'[t] = "HistoryLoaded"
Invokes(t) == pc[t] = "HistoryLoaded" /\ pc'[t] = "AwaitingReasoning"
Fails(t) == pc[t] = "AwaitingReasoning" /\ pc'[t] = "Failed"
Acts(t) == pc'[t] # pc[t] \/ out'[t] # out[t]
OwnMessages(t) ==
    {HumanMessage(UserText(t))} \cup {AIMessage(o) : o \in Replies(t) \ {<<>>}}

\* C6: a turn whose agent call fails yields exactly one fragment, the whole
\* text "Error processing request: " + str(e), never cut by the chunker; its
\* history gained the turn's user message when the agent was invoked and
\* gains nothing at the failure; a later turn on the same history is handed
\* that user message.
C6_Step ==
    \A t \in Turns :
        /\ Loads(t) => \A h \in DOMAIN heap : heap'[h] = heap[h]
        /\ Invokes(t) =>
               /\ heap'[message_history[t]] =
                      Append(heap[message_history[t]], HumanMessage(UserText(t)))
               /\ \A h \in DOMAIN heap : h # message_history[t] => heap'[h] = heap[h]
        /\ Fails(t) =>
               /\ heap' = heap
               /\ out[t] = <<>>
               /\ Len(out'[t]) = 1
               /\ \E e \in Errors : out'[t][1].content = ErrorPrefix \o e
        /\ pc[t] = "Failed" => pc'[t] = "Failed" /\ out'[t] = out[t]

C6_State ==
    \A t \in Turns :
        pc[t] = "Failed" =>
            /\ Len(out[t]) = 1
            /\ IsPrefix(ErrorPrefix, out[t][1].content)
            /\ Count(heap[message_history[t]], HumanMessage(UserText(t))) = 1
            /\ \A o \in Replies(t) \ {<<>>} :
                   AIMessage(o) \notin Range(heap[message_history[t]])
            /\ \A u \in Turns :
                   (t < u /\ Invoked(u) /\ message_history[u] = message_history[t])
                       => HumanMessage(UserText(t)) \in Range(chat_history[u])

C6_FailedTurn == [][C6_Step]_vars /\ []C6_State

C6_Witness ==
    \E t, u \in Turns :
        /\ t < u
        /\ pc[t] = "Failed"
        /\ Len(out[t][1].content) > ChunkLimit
        /\ Range(out[t][1].content) \cap Terminators # {}
        /\ Invoked(u)
        /\ message_history[u] = message_history[t]

\* C7, as claimed: when turns run one after another on one fresh session and
\* all succeed, the history is [user1, assistant1, ..., userk, assistantk].
RECURSIVE ExpectedHistory(_)
ExpectedHistory(k) ==
    IF k = 0 THEN <<>>
    ELSE ExpectedHistory(k - 1) \o <<HumanMessage(UserText(k)), AIMessage(ai_message[k])>>

TurnsStarted == Cardinality({t \in Turns : Started(t)})

C7_Original ==
    ( /\ ~overlap
      /\ TurnsStarted >= 1
      /\ \A t \in Turns : Started(t) =>
             pc[t] = "Completed" /\ message_history[t] = message_history[1] )
    => heap[message_history[1]] = ExpectedHistory(TurnsStarted)

\* C8: a step of a turn on session id s leaves the record and the messages of
\* every other session id that stays in the store as they were; when the agent
\* is invoked it is handed every message that turns appended to the same
\* history, and never a message of a turn on another session id.
C8_Step ==
    \A t \in Turns :
        /\ Acts(t) =>
               \A i \in 1..Len(sessions) :
                   (sessions[i].id # session_id'[t] /\ sessions[i].id \in Ids(sessions'))
                       => /\ Record(sessions', sessions[i].id).history = sessions[i].history
                          /\ heap'[sessions[i].history] = heap[sessions[i].history]
        /\ Invokes(t) =>
               \A u \in Turns :
                   (u # t /\ Started(u) /\ message_history[u] = message_history[t])
                       => Range(heap[message_history[u]]) \subseteq Range(chat_history'[t])

C8_State ==
    \A t, u \in Turns :
        (t # u /\ Started(t) /\ Invoked(u)) =>
            /\ session_id[t] # session_id[u]
                   => OwnMessages(t) \cap Range(chat_history[u]) = {}
            /\ (t < u /\ message_history[t] = message_history[u])
                   => HumanMessage(UserText(t)) \in Range(chat_history[u])

C8_OnlyOwnSession == [][C8_Step]_vars /\ []C8_State

C8_Witness ==
    /\ Len(sessions) = 2
    /\ pc[1] = "Completed"
    /\ pc[2] = "Completed"
    /\ session_id[1] # session_id[2]
    /\ ai_message[1] # <<>>
    /\ ai_message[2] # <<>>
    /\ Histories(sessions) = {message_history[1], message_history[2]}

\* C9: a turn goes Idle, HistoryLoaded, AwaitingReasoning and then ends
\* Completed (through Emitting while chunks remain to be yielded) or Failed;
\* the agent is invoked once, on entering AwaitingReasoning, and never again;
\* Completed means the reply is in the history and every chunk was yielded,
\* Failed means one error fragment was yielded and the failure added nothing.
PcSteps ==
    { <<"Idle", "HistoryLoaded">>, <<"HistoryLoaded", "AwaitingReasoning">>,
      <<"AwaitingReasoning", "Emitting">>, <<"AwaitingReasoning", "Completed">>,
      <<"AwaitingReasoning", "Failed">>, <<"Emitting", "Completed">> }

C9_Step ==
    \A t \in Turns :
        /\ pc'[t] # pc[t] => <<pc[t], pc'[t]>> \in PcSteps
        /\ invoked'[t] # invoked[t] => Invokes(t) /\ invoked'[t] = invoked[t] + 1
        /\ Invokes(t) => invoked'[t] = invoked[t] + 1
        /\ Fails(t) => heap' = heap /\ Len(out'[t]) = Len(out[t]) + 1

C9_State ==
    \A t \in Turns :
        /\ invoked[t] = (IF Invoked(t) THEN 1 ELSE 0)
        /\ pc[t] = "Completed" =>
               /\ AIMessage(ai_message[t]) \in Range(heap[message_history[t]])
               /\ sentences[t] = <<>>
               /\ Contents(out[t]) = Sentences(ai_message[t])
        /\ pc[t] = "Failed" =>
               /\ Len(out[t]) = 1
               /\ IsPrefix(ErrorPrefix, out[t][1].content)

C9_TurnStateMachine == [][C9_Step]_vars /\ []C9_State

C9_Witness ==
    \E t, u \in Turns :
        /\ pc[t] = "Completed"
        /\ Len(out[t]) >= 2
        /\ pc[u] = "Failed"

\* C10: while a record stays in the store, each step leaves its history's
\* earlier messages in place and in order: the old value is a prefix of the
\* new one.
C10_Step ==
    \A i \in 1..Len(sessions) :
        (\E j \in 1..Len(sessions') :
            sessions'[j].id = sessions[i].id /\ sessions'[j].history = sessions[i].history)
        => IsPrefix(heap[sessions[i].history], heap'[sessions[i].history])

C10_HistoryOnlyGrows == [][C10_Step]_vars

C10_Witness ==
    /\ Len(heap) > Len(sessions)
    /\ \E i \in 1..Len(sessions) : Len(heap[sessions[i].history]) >= 3

\* C11: on a successful turn the fragments delivered are exactly the chunks
\* of the assistant text, in the same order, each once, and nothing is
\* delivered before the reasoning call has returned: what has been yielded,
\* followed by what is still to be yielded, is the chunker's output.
C11_FragmentsAreTheChunks ==
    \A t \in Turns :
        /\ pc[t] \in {"Idle", "HistoryLoaded", "AwaitingReasoning"} => out[t] = <<>>
        /\ pc[t] \in {"Emitting", "Completed"} =>
               /\ Contents(out[t]) \o sentences[t] = Sentences(ai_message[t])
               /\ \A k \in 1..Len(out[t]) :
                      out[t][k] = Frame(format_as_sse[t], Sentences(ai_message[t])[k])
        /\ pc[t] = "Emitting" => sentences[t] # <<>>
        /\ pc[t] = "Completed" => sentences[t] = <<>>

\* A turn completed after it delivered two fragments.
C11_Witness ==
    \E t \in Turns :
        /\ pc[t] = "Completed"
        /\ Len(out[t]) = 2
        /\ out[t][1] # out[t][2]

Returns(t) == pc[t] = "AwaitingReasoning" /\ pc'[t] \in {"Emitting", "Completed"}
FirstIndex(s, m) == CHOOSE i \in 1..Len(s) : s[i] = m /\ \A j \in 1..(i - 1) : s[j] # m

\* C15: turns on one session id are not serialised, and in every interleaving
\* the order of the history is the order in which the turns executed their
\* append steps: the step before the reasoning call puts the turn's user
\* message at the end of the history as it is then, and the step after the
\* call extends the history as it is then and leaves the turn's assistant
\* message last.
C15_Step ==
    \A t \in Turns :
        LET h == message_history[t] IN
        /\ Invokes(t) => heap'[h] = Append(heap[h], HumanMessage(UserText(t)))
        /\ Returns(t) =>
               /\ IsPrefix(heap[h], heap'[h])
               /\ Len(heap'[h]) > Len(heap[h])
               /\ heap'[h][Len(heap'[h])] = AIMessage(ai_message'[t])
               /\ \A k \in (Len(heap[h]) + 1)..Len(heap'[h]) :
                      heap'[h][k] \in {HumanMessage(UserText(t)), AIMessage(ai_message'[t])}

C15_AppendOrder == [][C15_Step]_vars

\* Two turns on one history, both returned: both user messages were recorded
\* before any assistant message, and the second turn's reply was recorded
\* before the first turn's.
C15_Witness ==
    /\ message_history[1] = message_history[2]
    /\ message_history[1] # 0
    /\ pc[1] \in {"Emitting", "Completed"}
    /\ pc[2] \in {"Emitting", "Completed"}
    /\ ai_message[1] # <<>>
    /\ ai_message[2] # <<>>
    /\ LET H == heap[message_history[1]]
           u1 == FirstIndex(H, HumanMessage(UserText(1)))
           u2 == FirstIndex(H, HumanMessage(UserText(2)))
           a1 == FirstIndex(H, AIMessage(ai_message[1]))
           a2 == FirstIndex(H, AIMessage(ai_message[2]))
       IN u1 < u2 /\ u2 < a2 /\ a2 < a1

\* C19: every write to a session's history sets the record's last_access to
\* the current time: whenever the history of a stored record gets a message,
\* the record's last_access is the time of that step.
C19_Step ==
    \A i \in 1..Len(sessions') :
        LET r == sessions'[i] IN
        (r.history <= Len(heap) /\ heap'[r.history] # heap[r.history])
            => r.last_access = now'

C19_Original == [][C19_Step]_vars

\* C17: a client disconnect stops the delivery and never undoes or truncates
\* a history.  The assistant message is in the turn's history before the
\* first fragment is delivered, so whenever the client goes away during the
\* delivery the history holds the full reply; the steps by which a client
\* goes away, or a pending turn is cancelled, change no history and no
\* record; no step of any turn shortens or rewrites a history.
C17_State ==
    \A t \in Turns :
        pc[t] \in {"Emitting", "Completed", "Dropped"} =>
            AIMessage(ai_message[t]) \in Range(heap[message_history[t]])

C17_Step ==
    /\ \A h \in 1..Len(heap) : IsPrefix(heap[h], heap'[h])
    /\ \A t \in Turns :
           \/ pc'[t] \in {"PendingDisconnected", "Cancelled"} /\ pc'[t] # pc[t]
           \/ pc[t] = "Emitting" /\ pc'[t] = "Dropped"
           => /\ heap' = heap
              /\ sessions' = sessions
              /\ out' = out

C17_DisconnectKeepsHistory == [][C17_Step]_vars /\ []C17_State

\* The client of a turn went away while the reasoning call was pending, the
\* call completed all the same, and its reply is in the history though no
\* fragment was delivered; the client of another turn went away in the
\* middle of the delivery.
C17_Witness ==
    \E t, u \in Turns :
        /\ pc[t] = "Dropped"
        /\ out[t] = <<>>
        /\ ai_message[t] # <<>>
        /\ AIMessage(ai_message[t]) \in Range(heap[message_history[t]])
        /\ pc[u] = "Dropped"
        /\ Len(out[u]) = 1
        /\ sentences[u] # <<>>
        /\ AIMessage(ai_message[u]) \in Range(heap[message_history[u]])

\* C18: every failure while handling a request produces at least one
\* user-visible fragment or message sent to that client: when the handler of
\* the WebSocket connection has ended on a failure, at least one text was
\* sent on the socket after the payload that failed had arrived, and a turn
\* that failed has yielded its error message.
C18_Original ==
    /\ ws.failure => WsSent > ws.sent_at_receive
    /\ \A t \in Turns : pc[t] = "Failed" => out[t] # <<>>

\* C16: the steps of one get_history call are never interleaved with those of
\* another, on any entry path, so that under any concurrent use the size
\* invariant holds whenever no call is in progress and no get_history call
\* fails.
C16_Original ==
    /\ Cardinality({w \in Workers : worker[w].pc \in InGetHistory}) <= 1
    /\ (\A w \in Workers : worker[w].pc \notin InGetHistory) => Len(sessions) <= max_sessions
    /\ \A w \in Workers : ~worker[w].raised

\* C20: on the Chainlit path a successful turn extends the history the store
\* holds for the session by exactly [user message, assistant message] and
\* sends one final text; a turn whose reasoning call fails sends one error
\* message, leaves the user message recorded in that history and records no
\* assistant message.
C20_Step ==
    \A w \in Workers :
        LET h == worker[w].history
            returned == worker[w].pc = "agent" /\ worker'[w].pc = "done"
            failed == worker[w].pc = "agent" /\ worker'[w].pc = "failed"
        IN
        /\ returned =>
               /\ \E output \in Replies(w) :
                      /\ heap'[h] = heap[h] \o <<HumanMessage(ChainlitText(w)), AIMessage(output)>>
                      /\ worker'[w].sent = <<FinalMessage(output)>>
        /\ failed =>
               /\ Count(worker'[w].sent, ErrorMessage) = 1
               /\ HumanMessage(ChainlitText(w)) \in Range(heap'[h])
               /\ \A k \in (Len(heap[h]) + 1)..Len(heap'[h]) : heap'[h][k].role # "ai"

C20_Original == [][C20_Step]_vars

\* C27: a get_history call with the id of a stored session whose age exceeds
\* the expiry duration does not return the old history: the old object is
\* out of the store, and the call returns an object that was not in the
\* store, with no messages, now stored under the id with the time of the
\* call, the store staying within its capacity.
C27_ExpiredSessionStartsEmpty ==
    (call # NoCall /\ call.sid \in Ids(call.before)
        /\ AgeAtCall(Record(call.before, call.sid)) > ExpirySeconds) =>
        /\ call.history \notin Histories(call.before)
        /\ call.messages = <<>>
        /\ Record(call.before, call.sid).history \notin Histories(sessions)
        /\ call.sid \in Ids(sessions)
        /\ Record(sessions, call.sid).history = call.history
        /\ Record(sessions, call.sid).last_access = call.time
        /\ Len(sessions) <= max_sessions
\* The session swept by the call had messages.
C27_Witness ==
    /\ call # NoCall
    /\ call.sid \in Ids(call.before)
    /\ AgeAtCall(Record(call.before, call.sid)) > ExpirySeconds
    /\ heap[Record(call.before, call.sid).history] # <<>>
    /\ call.messages = <<>>
    /\ heap[call.history] = <<>>

\* ------------------------------------------------ history kept by a turn
\* The store has a record for sid that the next sweep will keep.
Live(sid) == sid \in Ids(clean_expired_sessions(sessions, now))

\* C26: a turn keeps the history object it got at its start.  When the
\* reasoning call returns the assistant message is appended to that object,
\* also when the store no longer holds it, and the store is left as it is;
\* a turn that starts on a session id without a live record gets a history
\* object that did not exist before, with no messages.
C26_Step ==
    \A t \in Turns :
        /\ Started(t) => message_history'[t] = message_history[t]
        /\ Returns(t) =>
              /\ Len(heap'[message_history[t]]) > Len(heap[message_history[t]])
              /\ Last(heap'[message_history[t]]) = AIMessage(ai_message'[t])
              /\ sessions' = sessions
        /\ (Loads(t) /\ ~Live(session_id'[t])) =>
              /\ message_history'[t] \notin DOMAIN heap
              /\ heap'[message_history'[t]] = <<>>
C26_KeepsHistoryObject == [][C26_Step]_vars
\* Turn 1 completed on a history the store dropped while it was waiting, and
\* turn 2, on the same session id, was given another history and an empty
\* chat_history.
C26_Witness ==
    /\ pc[1] = "Completed"
    /\ message_history[1] \notin Histories(sessions)
    /\ AIMessage(ai_message[1]) \in Range(heap[message_history[1]])
    /\ Invoked(2)
    /\ session_id[2] = session_id[1]
    /\ message_history[2] # message_history[1]
    /\ HumanMessage(UserText(1)) \notin Range(chat_history[2])
    /\ AIMessage(ai_message[1]) \notin Range(heap[message_history[2]])

\* ----------------------------------------------------- entry-path claims
\* C28: the store holds only session ids under which a turn was started;
\* the clients send the session id "a" or none, and a turn runs under "a" or
\* under "default", on the WebSocket and on the HTTP endpoints alike; a turn
\* that starts under an id the store has is given the stored history, so
\* turns without session_id, from whichever client, share one history.
C28_State ==
    /\ Ids(sessions) \subseteq {session_id[t] : t \in {u \in Turns : Started(u)}}
    /\ \A t \in Turns : Started(t) => session_id[t] \in {"a", "default"}
    /\ \A t \in Turns, u \in Turns :
          (/\ Started(t) /\ Started(u)
           /\ session_id[t] = session_id[u]
           /\ message_history[t] \in Histories(sessions)
           /\ message_history[u] \in Histories(sessions)) =>
              message_history[t] = message_history[u]
C28_Step ==
    \A t \in Turns :
        (Loads(t) /\ session_id'[t] \in Ids(sessions)) =>
            /\ message_history'[t] = Record(sessions, session_id'[t]).history
            /\ heap' = heap
C28_DefaultSessionShared == [][C28_Step]_vars /\ []C28_State
\* A WebSocket turn and an HTTP turn, both without session_id: one history,
\* and the second turn was handed the first one's user message.
C28_Witness ==
    /\ Invoked(1) /\ Invoked(2)
    /\ format_as_sse[1] # format_as_sse[2]
    /\ session_id[1] = "default" /\ session_id[2] = "default"
    /\ message_history[1] = message_history[2]
    /\ HumanMessage(UserText(1)) \in Range(chat_history[2])

\* C29: on the WebSocket connection a turn starts only when every earlier
\* turn of the connection has ended, a client message is received only when
\* no turn of the connection is unfinished, a fragment is sent only while
\* no other turn of the connection is running, and each turn is sent as one
\* raw text frame per fragment, in the order of the fragments.
C29_State ==
    /\ Cardinality({t \in StartedTurns : Running(t)}) <= 1
    /\ \A t \in StartedTurns, u \in StartedTurns :
          t < u => pc[t] \in {"Completed", "Failed"}
    /\ \A t \in StartedTurns :
          /\ \A k \in 1..Len(out[t]) : out[t][k].framing = "raw"
          /\ pc[t] \in {"Emitting", "Completed"} =>
                Contents(out[t]) \o sentences[t] = Sentences(ai_message[t])
C29_Step ==
    /\ ws'.requests # ws.requests =>
          \A t \in StartedTurns : pc[t] \in {"Completed", "Failed"}
    /\ \A t \in Turns :
          out'[t] # out[t] =>
              /\ Len(out'[t]) = Len(out[t]) + 1
              /\ SubSeq(out'[t], 1, Len(out[t])) = out[t]
              /\ \A u \in StartedTurns \ {t} : ~Running(u) /\ out'[u] = out[u]
C29_TurnsSequential == [][C29_Step]_vars /\ []C29_State
\* Two turns of the connection, each sent in two frames.
C29_Witness ==
    /\ ws.requests = 2
    /\ \A t \in {1, 2} :
          pc[t] = "Completed" /\ ~format_as_sse[t] /\ Len(out[t]) = 2

\* ---------------------------------------------------------- turn progress
Finished(t) == pc[t] \in {"Completed", "Failed"}
DistinctIds(S) == \A i \in 1..Len(S), j \in 1..Len(S) : S[i].id = S[j].id => i = j

\* C30: a started turn whose agent call ends finishes; a finished turn has
\* emitted as many fragments as the chunker made of the reply, or the one
\* error fragment, and emits no more; the store it leaves holds at most
\* max_sessions records with distinct ids.
C30_State ==
    /\ \A t \in Turns :
          /\ pc[t] = "Completed" =>
                (Len(out[t]) = Len(Sentences(ai_message[t])) /\ sentences[t] = <<>>)
          /\ pc[t] = "Failed" => Len(out[t]) = 1
    /\ Len(sessions) <= max_sessions
    /\ DistinctIds(sessions)
C30_Step == \A t \in Turns : Finished(t) => (pc'[t] = pc[t] /\ out'[t] = out[t])
C30_TurnsFinish ==
    /\ \A t \in Turns : Started(t) ~> Finished(t)
    /\ [][C30_Step]_vars
    /\ []C30_State
\* One turn failed and another completed after two fragments, and the store
\* holds a session.
C30_Witness ==
    /\ \E t \in Turns : pc[t] = "Failed" /\ Len(out[t]) = 1
    /\ \E t \in Turns : pc[t] = "Completed" /\ Len(out[t]) = 2
    /\ sessions # <<>>

\* --------------------------------------------------- chunker claims
RECURSIVE Concat(_)
Concat(ss) == IF ss = <<>> THEN <<>> ELSE Head(ss) \o Concat(Tail(ss))

NoTerminator(s) == \A i \in 1..Len(s) : s[i] \notin Terminators
CeilDiv(n, d) == (n + d - 1) \div d

\* C12: for every text T, the fragments the chunking loop makes of T,
\* concatenated in order, are exactly T.
C12_ConcatenationIsInput ==
    chunker.done => Concat(chunker.sentences) = chunker.ai_message

\* A text of three segments that ends in an unfinished sentence was chunked
\* into at least three fragments.
C12_Witness ==
    /\ chunker.done
    /\ Len(chunker.sentences) >= 3
    /\ Len(chunker.ai_message) > 2 * ChunkLimit
    /\ Last(chunker.ai_message) \notin Terminators
    /\ Len(Last(chunker.sentences)) < ChunkLimit

\* C13: every fragment is non-empty and at most ChunkLimit characters long;
\* every fragment except possibly the last ends with a terminator or is
\* exactly ChunkLimit long; a terminator occurs in a fragment only as its
\* last character.
C13_FragmentShape ==
    chunker.done =>
        \A k \in 1..Len(chunker.sentences) :
            LET f == chunker.sentences[k] IN
            /\ f # <<>>
            /\ Len(f) <= ChunkLimit
            /\ (k < Len(chunker.sentences) =>
                    Last(f) \in Terminators \/ Len(f) = ChunkLimit)
            /\ \A j \in 1..(Len(f) - 1) : f[j] \notin Terminators

\* A chunked text gave a fragment closed by the length limit alone, a shorter
\* fragment closed by a terminator, and a last fragment closed by neither.
C13_Witness ==
    /\ chunker.done
    /\ \E k \in 1..(Len(chunker.sentences) - 1) :
           Len(chunker.sentences[k]) = ChunkLimit /\ NoTerminator(chunker.sentences[k])
    /\ \E k \in 1..(Len(chunker.sentences) - 1) :
           Len(chunker.sentences[k]) < ChunkLimit /\ Last(chunker.sentences[k]) \in Terminators
    /\ Len(Last(chunker.sentences)) < ChunkLimit
    /\ NoTerminator(Last(chunker.sentences))

\* C14: a text of n characters without a terminator gives ceil(n / ChunkLimit)
\* fragments, all of length ChunkLimit except possibly the last; the empty
\* text gives no fragment; a text that ends at a terminator, or whose length
\* is a multiple of ChunkLimit, gives no trailing empty fragment: its last
\* fragment ends where the text ends and is not empty.
C14_Boundaries ==
    chunker.done =>
        LET T == chunker.ai_message
            F == chunker.sentences
        IN
        /\ NoTerminator(T) =>
               /\ Len(F) = CeilDiv(Len(T), ChunkLimit)
               /\ \A k \in 1..(Len(F) - 1) : Len(F[k]) = ChunkLimit
               /\ (F # <<>> => Len(Last(F)) = Len(T) - ChunkLimit * (Len(F) - 1))
        /\ (T = <<>> => F = <<>>)
        /\ (T # <<>> /\ (Last(T) \in Terminators \/ (NoTerminator(T) /\ Len(T) % ChunkLimit = 0)) =>
               /\ F # <<>>
               /\ Last(F) # <<>>
               /\ Last(Last(F)) = Last(T))

\* A text of 2 * ChunkLimit letters was chunked into two fragments of
\* ChunkLimit letters.
C14_Witness ==
    /\ chunker.done
    /\ chunker.ai_message = Rep("a", 2 * ChunkLimit)
    /\ chunker.sentences = <<Rep("a", ChunkLimit), Rep("a", ChunkLimit)>>

\* ------------------------------------------------------ scheduling claims
IsOperation == cal.op \notin {"", "import", "make_api_request"}
CancelRequests ==
    {i \in 1..Len(cal.account.requests) : cal.account.requests[i] = Request("POST", "cancel")}
FetchRequests ==
    {i \in 1..Len(cal.account.requests) : cal.account.requests[i] = Request("GET", "booking")}
\* The fetch was made and the server answered it with a booking.
FetchSucceeded ==
    /\ FetchRequests # {}
    /\ cal.fetched.status = "ok"
    /\ cal.fetched.body \in {"object", "recurring"}

\* C21: when the Cal.com API key is missing at startup, the configuration
\* error is reported once and nothing goes on after the startup: no tool and
\* no scheduling-API operation is executed.
C21_Original ==
    (cal.pc # "not_imported" /\ ~cal.api_key) => (cal.reports = 1 /\ cal.op = "import")

\* C22: a tool or a CalApiService operation returns a payload or an error
\* dict and never lets an exception out; with the API key missing or an
\* argument failing a check it returns the error dict without issuing an
\* HTTP request.
C22_Original ==
    IsOperation =>
        /\ cal.account.result.kind # "raised"
        /\ (~cal.api_key \/ cal.invalid) =>
              (cal.account.result.kind = "error" /\ cal.account.requests = <<>>)

\* C24: make_api_request never lets an exception out; exactly one of the
\* data and the error it returns is None; an unsupported method gives an
\* error without a request; an HTTP error whose body is not JSON gives an
\* error.
C24_Original ==
    cal.op = "make_api_request" =>
        /\ ~cal.returned.raised
        /\ (cal.returned.data = None) # (cal.returned.error = None)
        /\ Upper(cal.method) \notin {"GET", "POST"} =>
              (cal.returned.error # None /\ ~cal.returned.sent)
        /\ (cal.returned.sent /\ cal.response.status = "error") => cal.returned.error # None

\* C25: cancel_appointment fetches the booking before it cancels; it issues
\* at most one cancel request, after the fetch request and only when the
\* fetch succeeded; for a recurring booking with cancel_subsequent_bookings
\* unspecified it issues none and returns the confirmation_required answer,
\* so a recurring booking is cancelled only with an explicit true or false.
C25_FetchBeforeCancel ==
    cal.op = "cancel_appointment" =>
        /\ Cardinality(CancelRequests) <= 1
        /\ \A i \in CancelRequests : \E j \in FetchRequests : j < i
        /\ CancelRequests # {} => FetchSucceeded
        /\ (FetchSucceeded /\ cal.fetched.body = "recurring" /\ cal.flag = "None") =>
              (CancelRequests = {} /\ cal.account.result = ConfirmationRequired)
        /\ (CancelRequests # {} /\ cal.fetched.body = "recurring") =>
              cal.flag \in {"True", "False"}
C25_Witness ==
    /\ cal.op = "cancel_appointment"
    /\ cal.account.requests = <<Request("GET", "booking"), Request("POST", "cancel")>>
    /\ cal.fetched.body = "recurring"
    /\ cal.flag = "False"
    /\ cal.account.result.kind = "payload"

\* -------------------------------------------------------- singleton claim
Using == {th \in Threads : singleton.thread[th].pc = "using"}
RECURSIVE InitRuns(_)
InitRuns(n) == IF n = 0 THEN 0 ELSE singleton.objects[n].inits + InitRuns(n - 1)

\* C23: whatever the interleaving of CalApiService() and get_instance()
\* calls, at most one instance is created, every caller receives the same
\* instance, the body of __init__ runs at most once, and it has run to its
\* end before a caller has the instance.
C23_Original ==
    /\ Len(singleton.objects) <= 1
    /\ \A th \in Using, other \in Using :
          singleton.thread[th].self = singleton.thread[other].self
    /\ InitRuns(Len(singleton.objects)) <= 1
    /\ \A th \in Using : singleton.objects[singleton.thread[th].self].complete

====
